---- MODULE Spec2Model ----
(***************************************************************************)
(* find_speech_onset (src/detect_onset.py) as a state machine.             *)
(*                                                                         *)
(* Numbers.  Every floating-point quantity of the function (a time in      *)
(* seconds, a time in milliseconds, the threshold, an x position of the    *)
(* figure) is kept as a fixed-point integer with five decimals: the number *)
(* x is the integer x * 10^5.  A detector time of 0.00009 s is 9, the same *)
(* instant in milliseconds (0.09) is 9000, the rounded value 0.1 is 10000. *)
(* Multiplying by 1000 and rounding to one decimal are therefore real      *)
(* operations on the value, and a number read on an axis in the wrong unit *)
(* is a different instant.                                                 *)
(*                                                                         *)
(* External libraries (scipy.io.wavfile, noisereduce, librosa, matplotlib) *)
(* are black boxes with the contract the call site relies on: reading,     *)
(* denoising and detection either raise or deliver; the detector delivers  *)
(* strictly ascending, non-negative times in seconds.                      *)
(***************************************************************************)
EXTENDS Integers, Sequences, FiniteSets, TLC

VARIABLES
    pc,              \* position in find_speech_onset, or "idle"/"returned"/"raised"
    file,            \* the WAV file behind wav_path (what the libraries make of it)
    nothing_before,  \* argument
    plotted,         \* argument
    onsets,          \* the local array `onsets`
    console,         \* lines printed by the current invocation
    figure,          \* what plt.show() displayed in the current invocation
    result,          \* value returned by the current invocation
    err,             \* exception that left the current invocation
    calls,           \* invocations started so far
    prev             \* observable outcome of the previous invocation

vars == <<pc, file, nothing_before, plotted, onsets, console, figure, result,
          err, calls, prev>>

----------------------------------------------------------------------------
\* Bounds of the model.
MaxTick == 6         \* detector times lie on the grid 0, 3, 6, ... 3*MaxTick (x 1e-5 s)
MaxOnsets == 4       \* the detector reports at most this many onsets
MaxThreshold == 5    \* nothing_before is 0, 0.02, ... 0.02*MaxThreshold ms
MaxCalls == 2        \* invocations on the same file

\* Program constants, fixed point.
MsPerSecond == 1000  \* onsets *= 1000
Tenth == 10000       \* one decimal place: 0.1

NoValue == "none"
NoResult == [returned |-> FALSE, value |-> <<>>]
NoFigure == [shown |-> FALSE, xmax |-> 0, markers |-> <<>>]
NoOutcome ==
    [valid |-> FALSE, nothing_before |-> 0, plotted |-> FALSE, err |-> NoValue,
     result |-> NoResult, console |-> <<>>, figure |-> NoFigure, survivors |-> <<>>]

Times == {3 * k : k \in 0..MaxTick}
Thresholds == {2000 * k : k \in 0..MaxThreshold}
ClipLength == 3 * (MaxTick + 1)

RECURSIVE Ascending(_, _)
\* strictly ascending sequences over Times of length n whose elements exceed lo
Ascending(n, lo) ==
    IF n = 0 THEN {<<>>}
    ELSE UNION {{<<t>> \o s : s \in Ascending(n - 1, t)} : t \in {u \in Times : u > lo}}

DetectorOutputs == UNION {Ascending(n, -1) : n \in 0..MaxOnsets}

Faults == {"decode", "denoise", "detect"}

Files ==
    {[fault |-> "none", raw |-> s, length |-> ClipLength] : s \in DetectorOutputs}
    \cup {[fault |-> f, raw |-> <<>>, length |-> ClipLength] : f \in Faults}

----------------------------------------------------------------------------
\* Pure steps of the function.

\* onsets *= 1000
ToMs(a) == [i \in 1..Len(a) |-> a[i] * MsPerSecond]

\* numpy rint on x / Tenth: nearest integer, ties to the even one
Rint(x) ==
    LET q == x \div Tenth
        r == x % Tenth
    IN  IF 2 * r < Tenth THEN q
        ELSE IF 2 * r > Tenth THEN q + 1
        ELSE IF q % 2 = 0 THEN q ELSE q + 1

\* np.round(onsets, 1)
RoundTruncates(a) == [i \in 1..Len(a) |-> (a[i] \div Tenth) * Tenth]
RoundTo1(a) == [i \in 1..Len(a) |-> Rint(a[i]) * Tenth]

\* onsets >= nothing_before: the boolean mask
Mask(a, nb) == [i \in 1..Len(a) |-> a[i] >= nb]

RECURSIVE Compress(_, _)
\* a[mask]: the elements of a whose mask entry is true, in order
Compress(a, mask) ==
    IF Len(a) = 0 THEN <<>>
    ELSE IF Head(mask) THEN <<Head(a)>> \o Compress(Tail(a), Tail(mask))
         ELSE Compress(Tail(a), Tail(mask))

RECURSIVE Reverse(_)
Reverse(a) == IF Len(a) = 0 THEN <<>> ELSE Reverse(Tail(a)) \o <<Head(a)>>

FilterNothing(a, nb) == a
FilterInverted(a, nb) == Compress(a, [i \in 1..Len(a) |-> a[i] <= nb])
FilterStrict(a, nb) == Compress(a, [i \in 1..Len(a) |-> a[i] > nb])
FilterReversed(a, nb) == Reverse(Compress(a, Mask(a, nb)))
\* onsets[onsets >= nothing_before]
Filter(a, nb) == Compress(a, Mask(a, nb))

\* onsets[0], onsets[1], onsets[2] are in range
FormatsFirstOnly(a) == Len(a) >= 1
CanFormat(a) == Len(a) >= 3

\* the printed line "First three onsets are: {a[0]}ms, {a[1]}ms, and {a[2]}ms"
SummaryLine(a) == [text |-> "First three onsets are", t0 |-> a[1], t1 |-> a[2], t2 |-> a[3]]

\* onsets[0:3]: a slice never raises
SliceOffByOne(a) == SubSeq(a, 2, IF Len(a) < 3 THEN Len(a) ELSE 3)
Slice3(a) == SubSeq(a, 1, IF Len(a) < 3 THEN Len(a) ELSE 3)

\* return onsets[0:3] of the plotted branch, and of the else branch
ResultInSeconds(a) == [i \in 1..Len(Slice3(a)) |-> Slice3(a)[i] \div MsPerSecond]
ResultPlotted(a) == Slice3(a)
ResultElse(a) == Slice3(a)

\* plt.vlines(onsets, ...): the x positions of the markers, read on the
\* figure's x axis, which is `time` = sample index / rate, in seconds
MarkerPositions(a) == a

\* wavfile.read, nr.reduce_noise and onset_detect deliver unless they raise
ReadSwallowsError(f) == TRUE
ReadDelivers(f) == f.fault # "decode"
DenoiseDelivers(f) == f.fault # "denoise"
DetectDelivers(f) == f.fault # "detect"

----------------------------------------------------------------------------
Init ==
    /\ pc = "idle"
    /\ file \in Files
    /\ nothing_before = 0
    /\ plotted = FALSE
    /\ onsets = <<>>
    /\ console = <<>>
    /\ figure = NoFigure
    /\ result = NoResult
    /\ err = NoValue
    /\ calls = 0
    /\ prev = NoOutcome

\* what a caller observes of a finished invocation (with the filtered array,
\* which the function holds when it ends)
Outcome ==
    [valid |-> TRUE, nothing_before |-> nothing_before, plotted |-> plotted,
     err |-> err, result |-> result, console |-> console, figure |-> figure,
     survivors |-> onsets]

Finished == pc \in {"returned", "raised"}

\* find_speech_onset(wav_path, nothing_before, plotted) is entered
Call(nb, p) ==
    /\ pc = "idle" \/ Finished
    /\ calls < MaxCalls
    /\ prev' = IF Finished THEN Outcome ELSE prev
    /\ calls' = calls + 1
    /\ nothing_before' = nb
    /\ plotted' = p
    /\ onsets' = <<>>
    /\ console' = <<>>
    /\ figure' = NoFigure
    /\ result' = NoResult
    /\ err' = NoValue
    /\ pc' = "read"
    /\ UNCHANGED file

Raise(e) ==
    /\ pc' = "raised"
    /\ err' = e
    /\ UNCHANGED <<file, nothing_before, plotted, onsets, console, figure, result,
                   calls, prev>>

Goto(l) ==
    /\ pc' = l
    /\ UNCHANGED <<file, nothing_before, plotted, onsets, console, figure, result,
                   err, calls, prev>>

\* rate, signal = wavfile.read(wav_path); signal = signal.astype(np.float32)
ReadWav ==
    /\ pc = "read"
    /\ IF ReadDelivers(file) THEN Goto("denoise") ELSE Raise("IOError")

\* denoised_signal = nr.reduce_noise(y=signal, sr=rate)
ReduceNoise ==
    /\ pc = "denoise"
    /\ IF DenoiseDelivers(file) THEN Goto("detect") ELSE Raise("DenoiseError")

\* onsets = onset_detect(y=denoised_signal, sr=rate, units="time")
OnsetDetect ==
    /\ pc = "detect"
    /\ IF DetectDelivers(file)
       THEN /\ onsets' = file.raw
            /\ pc' = "scale"
            /\ UNCHANGED <<file, nothing_before, plotted, console, figure, result,
                           err, calls, prev>>
       ELSE Raise("DetectError")

\* onsets *= 1000
Scale ==
    /\ pc = "scale"
    /\ onsets' = ToMs(onsets)
    /\ pc' = "round"
    /\ UNCHANGED <<file, nothing_before, plotted, console, figure, result, err,
                   calls, prev>>

\* onsets = np.round(onsets, 1)
Round ==
    /\ pc = "round"
    /\ onsets' = RoundTo1(onsets)
    /\ pc' = "filter"
    /\ UNCHANGED <<file, nothing_before, plotted, console, figure, result, err,
                   calls, prev>>

\* onsets = onsets[onsets >= nothing_before]; if plotted:
FilterOnsets ==
    /\ pc = "filter"
    /\ onsets' = Filter(onsets, nothing_before)
    /\ pc' = IF plotted THEN "print_plotted" ELSE "print_else"
    /\ UNCHANGED <<file, nothing_before, plotted, console, figure, result, err,
                   calls, prev>>

PrintOrRaise(next) ==
    IF CanFormat(onsets)
    THEN /\ console' = Append(console, SummaryLine(onsets))
         /\ pc' = next
         /\ UNCHANGED <<file, nothing_before, plotted, onsets, figure, result, err,
                        calls, prev>>
    ELSE Raise("IndexError")

\* the plotted branch with the figure built and shown before the print
PrintAfterShow ==
    /\ pc = "print_plotted"
    /\ IF CanFormat(onsets)
       THEN PrintOrRaise("plot")
       ELSE /\ figure' = [shown |-> TRUE, xmax |-> file.length,
                          markers |-> MarkerPositions(onsets)]
            /\ pc' = "raised"
            /\ err' = "IndexError"
            /\ UNCHANGED <<file, nothing_before, plotted, onsets, console, result,
                           calls, prev>>

\* the print of the plotted branch
PrintPlotted ==
    /\ pc = "print_plotted"
    /\ PrintOrRaise("plot")

\* time = np.arange(len(denoised_signal)) / rate ... plt.show()
Plot ==
    /\ pc = "plot"
    /\ figure' = [shown |-> TRUE, xmax |-> file.length,
                  markers |-> MarkerPositions(onsets)]
    /\ pc' = "return_plotted"
    /\ UNCHANGED <<file, nothing_before, plotted, onsets, console, result, err,
                   calls, prev>>

\* return onsets[0:3] of the plotted branch
ReturnPlotted ==
    /\ pc = "return_plotted"
    /\ result' = [returned |-> TRUE, value |-> ResultPlotted(onsets)]
    /\ pc' = "returned"
    /\ UNCHANGED <<file, nothing_before, plotted, onsets, console, figure, err,
                   calls, prev>>

\* the print of the else branch
PrintElse ==
    /\ pc = "print_else"
    /\ PrintOrRaise("return_else")

\* return onsets[0:3] of the else branch
ReturnElse ==
    /\ pc = "return_else"
    /\ result' = [returned |-> TRUE, value |-> ResultElse(onsets)]
    /\ pc' = "returned"
    /\ UNCHANGED <<file, nothing_before, plotted, onsets, console, figure, err,
                   calls, prev>>

Next ==
    \/ \E nb \in Thresholds, p \in BOOLEAN : Call(nb, p)
    \/ ReadWav
    \/ ReduceNoise
    \/ OnsetDetect
    \/ Scale
    \/ Round
    \/ FilterOnsets
    \/ PrintPlotted
    \/ Plot
    \/ ReturnPlotted
    \/ PrintElse
    \/ ReturnElse

Spec == Init /\ [][Next]_vars

----------------------------------------------------------------------------
\* Vocabulary of the properties.

Min(a, b) == IF a < b THEN a ELSE b
Abs(x) == IF x < 0 THEN -x ELSE x
Range(a) == {a[i] : i \in 1..Len(a)}
NonDecreasing(a) == \A i \in 1..Len(a), j \in 1..Len(a) : i < j => a[i] <= a[j]
IsSuffix(s, t) ==
    /\ Len(s) <= Len(t)
    /\ \A i \in 1..Len(s) : s[i] = t[Len(t) - Len(s) + i]

\* the detector's onsets in milliseconds, rounded to one decimal
RoundedMs == RoundTo1(ToMs(file.raw))

\* the rounded onsets that are at least the threshold nb, in order
Surviving(nb) == LET Keep(v) == v >= nb IN SelectSeq(RoundedMs, Keep)

FirstThree(a) == SubSeq(a, 1, Min(3, Len(a)))

PastFilter ==
    pc \in {"print_plotted", "print_else", "plot", "return_plotted", "return_else",
            "returned"}
    \/ (pc = "raised" /\ err = "IndexError")

\* C1: a returned sequence is the first three, in order, of the rounded
\* millisecond onsets that are >= nothing_before: at most 3 long, and exactly 3
\* when 3 or more survive the filter.
C1_FirstThreeSurvivors ==
    pc = "returned" =>
        /\ result.returned
        /\ result.value = FirstThree(Surviving(nothing_before))
        /\ Len(result.value) <= 3
        /\ (Len(Surviving(nothing_before)) >= 3 => Len(result.value) = 3)

C1_Witness ==
    /\ pc = "returned"
    /\ Len(RoundedMs) = 4
    /\ Len(Surviving(nothing_before)) = 3
    /\ result.value = SubSeq(RoundedMs, 2, 4)

\* C2: every element of a returned sequence is >= nothing_before.
C2_FilterInvariant ==
    pc = "returned" => \A i \in 1..Len(result.value) : result.value[i] >= nothing_before

C2_Witness ==
    /\ pc = "returned"
    /\ \E i \in 1..Len(RoundedMs) : RoundedMs[i] < nothing_before
    /\ Len(result.value) = 3

C5_Ordered ==
    (pc = "returned" /\ nothing_before = 0 /\ NonDecreasing(file.raw)
        /\ \A t \in Range(file.raw) : t >= 0) =>
        /\ NonDecreasing(result.value)
        /\ \A v \in Range(result.value) : v >= 0
        /\ NonDecreasing(onsets)

C5_Witness ==
    /\ pc = "returned"
    /\ nothing_before = 0
    /\ Len(file.raw) = 4
    /\ result.value[1] < result.value[2]
    /\ result.value[2] = result.value[3]

\* C6: for two calls on the same file with thresholds T1 < T2, the survivors
\* at T2 are a suffix of the survivors at T1, the value returned for T2 is the
\* first (up to three) of that suffix, and its i-th element is not below the
\* i-th element returned for T1.
C6_After(lo, hi) ==
    /\ IsSuffix(hi.survivors, lo.survivors)
    /\ (hi.result.returned => hi.result.value = FirstThree(hi.survivors))
    /\ (hi.result.returned =>
            /\ lo.result.returned
            /\ \A i \in 1..Len(hi.result.value) :
                   hi.result.value[i] >= lo.result.value[i])

C6_ThresholdMonotone ==
    (Finished /\ prev.valid /\ file.fault = "none") =>
        /\ (prev.nothing_before < nothing_before => C6_After(prev, Outcome))
        /\ (nothing_before < prev.nothing_before => C6_After(Outcome, prev))

C6_Witness ==
    /\ pc = "returned"
    /\ prev.valid
    /\ prev.result.returned
    /\ prev.nothing_before < nothing_before
    /\ Len(prev.survivors) = 4
    /\ Len(onsets) = 3
    /\ result.value[1] > prev.result.value[1]

\* C7: every returned timestamp is the millisecond value of one of the
\* detector's onsets rounded to one decimal: a whole number of tenths of a
\* millisecond, at most half a tenth away from that onset.
C7_Rounded ==
    pc = "returned" =>
        \A i \in 1..Len(result.value) :
            /\ result.value[i] % Tenth = 0
            /\ \E j \in 1..Len(file.raw) :
                   2 * Abs(result.value[i] - file.raw[j] * MsPerSecond) <= Tenth

C7_Witness ==
    /\ pc = "returned"
    /\ \E j \in 1..Len(file.raw) :
           /\ (file.raw[j] * MsPerSecond) % Tenth # 0
           /\ file.raw[j] * MsPerSecond > result.value[1]
           /\ 2 * (file.raw[j] * MsPerSecond - result.value[1]) <= Tenth
    /\ \E j \in 1..Len(file.raw) :
           /\ file.raw[j] * MsPerSecond < result.value[3]
           /\ 2 * (result.value[3] - file.raw[j] * MsPerSecond) = Tenth

\* C8: a failure of the decode, noise-reduction or detection step leaves the
\* call as that error: nothing is printed, shown or returned.  The summary line
\* is printed only once the filter has run, and before any figure is shown.
C8_ErrorsPropagate ==
    /\ (file.fault = "decode" => pc \in {"idle", "read", "raised"})
    /\ (file.fault = "denoise" => pc \in {"idle", "read", "denoise", "raised"})
    /\ (file.fault = "detect" => pc \in {"idle", "read", "denoise", "detect", "raised"})
    /\ (pc = "raised" /\ file.fault = "decode" => err = "IOError")
    /\ (pc = "raised" /\ file.fault = "denoise" => err = "DenoiseError")
    /\ (pc = "raised" /\ file.fault = "detect" => err = "DetectError")
    /\ (file.fault # "none" => console = <<>> /\ ~figure.shown /\ ~result.returned)
    /\ (pc = "raised" => console = <<>> /\ ~figure.shown /\ ~result.returned)
    /\ (console # <<>> =>
            /\ pc \in {"plot", "return_plotted", "return_else", "returned"}
            /\ onsets = Surviving(nothing_before))
    /\ (figure.shown => Len(console) = 1)

C8_Witness ==
    /\ pc = "raised"
    /\ err = "IOError"
    /\ file.fault = "decode"
    /\ prev.valid /\ prev.err = "IOError"

\* C9: when plotted, every marker of the figure stands at its onset's time in
\* seconds (the millisecond value / 1000), within the clip whenever the onset
\* is; the returned values stay in milliseconds.
C9_MarkersInSeconds ==
    (figure.shown /\ pc = "returned") =>
        /\ Len(figure.markers) = Len(onsets)
        /\ \A i \in 1..Len(figure.markers) :
               /\ figure.markers[i] * MsPerSecond = onsets[i]
               /\ (onsets[i] <= figure.xmax * MsPerSecond =>
                       figure.markers[i] <= figure.xmax)
        /\ result.value = FirstThree(onsets)

====
